---- MODULE Spec2Model ----
(***************************************************************************)
(* A model of pytaxonkit (src/pytaxonkit.py): the ListResult tree wrapper  *)
(* with its two generators, and the adapters that shell out to taxonkit.   *)
(*                                                                         *)
(* Text is a sequence of one-character strings, so that str.replace,       *)
(* str.split, str.strip, int(), json.dumps and json.loads are computed     *)
(* character by character.  A mapping (a Python dict, which keeps          *)
(* insertion order) is a sequence of <<key, value>> pairs with distinct    *)
(* keys; a tree is a mapping whose values are trees.                       *)
(***************************************************************************)
EXTENDS Integers, Sequences, FiniteSets, TLC

VARIABLES
    payload,    \* the text handed to ListResult(jsondata)
    written,    \* the nest of (key, value) pairs the payload was written from, and how
    built,      \* whether json.loads took the payload, and the mapping it made
    data,       \* ListResult._data of the result under study
    keyParts,   \* the (taxid, rank, name) the single key was written from, or <<>>
    last,       \* the value of the latest len(result) or str(result)
    abandoned,  \* whether a partly consumed generator was dropped for a new one
    subRun,     \* the latest [t for t in tree.traverse] on a subtree __iter__ yielded
    it,         \* the generator made by ListResult.__iter__: [status, idx]
    itOut,      \* what that generator has yielded: [taxon, subtree] records
    itErr,      \* the exception that ended it and the key it rose at, or NoErr
    tr,         \* the generator made by ListResult.traverse: [status, stack]
    trOut,      \* what that generator has yielded: BasicTaxon records
    trPaths,    \* for each yielded taxon, where its key sits in data (indices)
    trErr,      \* the exception that ended it and the key it rose at, or NoErr
    nodes,      \* nodes.dmp in the data directory: "absent", "empty" or "nonempty"
    call,       \* the adapter call under way or just over: its name and arguments
    pc,         \* where that call stands
    procs,      \* the taxonkit processes the call has started, in order
    tmpfile,    \* lineage's NamedTemporaryFile
    result,     \* what the call returned
    exc,        \* what the call raised
    warnings,   \* the warnings the call gave through warn()
    logs        \* the lines the call wrote through log()

treeVars ==
    <<payload, written, built, subRun, data, keyParts, last, abandoned,
      it, itOut, itErr, tr, trOut, trPaths, trErr>>

callVars == <<nodes, call, pc, procs, tmpfile, result, exc, warnings, logs>>

vars == <<treeVars, callVars>>

-----------------------------------------------------------------------------
(* Python built-ins on text *)

Whitespace == {" ", "\t", "\n"}

Digits == {"0", "1", "2", "3", "4", "5", "6", "7", "8", "9"}

DigitVal(c) ==
    CASE c = "0" -> 0 [] c = "1" -> 1 [] c = "2" -> 2 [] c = "3" -> 3
      [] c = "4" -> 4 [] c = "5" -> 5 [] c = "6" -> 6 [] c = "7" -> 7
      [] c = "8" -> 8 [] c = "9" -> 9

DigitChar(d) ==
    CASE d = 0 -> "0" [] d = 1 -> "1" [] d = 2 -> "2" [] d = 3 -> "3"
      [] d = 4 -> "4" [] d = 5 -> "5" [] d = 6 -> "6" [] d = 7 -> "7"
      [] d = 8 -> "8" [] d = 9 -> "9"

\* str.replace(old, new) for one-character old and new
str_replace(s, old, new) ==
    [i \in 1..Len(s) |-> IF s[i] = old THEN new ELSE s[i]]

RECURSIVE SplitAcc(_, _, _, _, _)
SplitAcc(s, sep, i, cur, acc) ==
    IF i > Len(s) THEN Append(acc, cur)
    ELSE IF s[i] = sep THEN SplitAcc(s, sep, i + 1, <<>>, Append(acc, cur))
    ELSE SplitAcc(s, sep, i + 1, Append(cur, s[i]), acc)

\* str.split(sep) with a one-character separator and no maxsplit
str_split(s, sep) == SplitAcc(s, sep, 1, <<>>, <<>>)

\* str.strip(): whitespace removed from both ends
str_strip(s) ==
    LET keep == {i \in 1..Len(s) : s[i] \notin Whitespace}
    IN  IF keep = {} THEN <<>>
        ELSE SubSeq(s, CHOOSE i \in keep : \A j \in keep : i <= j,
                       CHOOSE i \in keep : \A j \in keep : j <= i)

RECURSIVE DecimalValue(_, _)
DecimalValue(s, acc) ==
    IF s = <<>> THEN acc
    ELSE IF Head(s) = "_" THEN DecimalValue(Tail(s), acc)
    ELSE DecimalValue(Tail(s), 10 * acc + DigitVal(Head(s)))

\* int(text): surrounding whitespace, one optional sign, digits that single
\* underscores may separate; anything else is a ValueError
py_int(s) ==
    LET t    == str_strip(s)
        sgn  == t # <<>> /\ t[1] \in {"+", "-"}
        body == IF sgn THEN Tail(t) ELSE t
        good == /\ body # <<>>
                /\ \A i \in 1..Len(body) : body[i] \in Digits \cup {"_"}
                /\ body[1] # "_" /\ body[Len(body)] # "_"
                /\ \A i \in 1..(Len(body) - 1) : ~(body[i] = "_" /\ body[i + 1] = "_")
        mag  == DecimalValue(body, 0)
    IN  IF good
        THEN [ok |-> TRUE, val |-> IF sgn /\ t[1] = "-" THEN 0 - mag ELSE mag]
        ELSE [ok |-> FALSE, val |-> 0]

RECURSIVE NatStr(_)
NatStr(n) ==
    IF n < 10 THEN <<DigitChar(n)>>
    ELSE Append(NatStr(n \div 10), DigitChar(n % 10))

\* str(n) for an integer
py_str(n) == IF n < 0 THEN <<"-">> \o NatStr(0 - n) ELSE NatStr(n)

-----------------------------------------------------------------------------
(* json.dumps and json.loads, on nested objects *)

\* a json encoder that escapes nothing
EscapeCharRaw(c) == <<c>>

\* the escapes of json's string encoder that the modelled alphabet can meet
EscapeChar(c) ==
    CASE c = "\"" -> <<"\\", "\"">>
      [] c = "\\" -> <<"\\", "\\">>
      [] c = "\n" -> <<"\\", "n">>
      [] c = "\t" -> <<"\\", "t">>
      [] OTHER    -> <<c>>

RECURSIVE EscapeStr(_)
EscapeStr(s) == IF s = <<>> THEN <<>> ELSE EscapeChar(Head(s)) \o EscapeStr(Tail(s))

RECURSIVE DumpsCompact(_)
RECURSIVE DumpsItems(_, _)
DumpsItems(m, i) ==
    IF i > Len(m) THEN <<>>
    ELSE (IF i > 1 THEN <<",", " ">> ELSE <<>>)
         \o <<"\"">> \o EscapeStr(m[i][1]) \o <<"\"", ":", " ">>
         \o DumpsCompact(m[i][2])
         \o DumpsItems(m, i + 1)

\* json.dumps(obj): separators ", " and ": ", no indentation
DumpsCompact(m) == <<"{">> \o DumpsItems(m, 1) \o <<"}">>

json_dumps(obj) == DumpsCompact(obj)

Spaces(n) == [i \in 1..n |-> " "]

\* a json.dumps(obj, indent=4) that writes the members last to first
RECURSIVE DumpsIndentReversed(_, _)
RECURSIVE DumpsMembersReversed(_, _, _)
DumpsMembersReversed(m, i, level) ==
    IF i < 1 THEN <<>>
    ELSE (IF i < Len(m) THEN <<",">> ELSE <<>>)
         \o <<"\n">> \o Spaces(4 * (level + 1))
         \o <<"\"">> \o EscapeStr(m[i][1]) \o <<"\"", ":", " ">>
         \o DumpsIndentReversed(m[i][2], level + 1)
         \o DumpsMembersReversed(m, i - 1, level)

DumpsIndentReversed(m, level) ==
    IF m = <<>> THEN <<"{", "}">>
    ELSE <<"{">> \o DumpsMembersReversed(m, Len(m), level)
         \o <<"\n">> \o Spaces(4 * level) \o <<"}">>

\* json.dumps(obj, indent=4): a member to a line, four spaces a level, "," at
\* the end of a line and ": " after a key; an empty object is "{}"
RECURSIVE DumpsIndent(_, _)
RECURSIVE DumpsMembers(_, _, _)
DumpsMembers(m, i, level) ==
    IF i > Len(m) THEN <<>>
    ELSE (IF i > 1 THEN <<",">> ELSE <<>>)
         \o <<"\n">> \o Spaces(4 * (level + 1))
         \o <<"\"">> \o EscapeStr(m[i][1]) \o <<"\"", ":", " ">>
         \o DumpsIndent(m[i][2], level + 1)
         \o DumpsMembers(m, i + 1, level)

DumpsIndent(m, level) ==
    IF m = <<>> THEN <<"{", "}">>
    ELSE <<"{">> \o DumpsMembers(m, 1, level)
         \o <<"\n">> \o Spaces(4 * level) \o <<"}">>

Failed == [ok |-> FALSE, val |-> <<>>, pos |-> 0]

RECURSIVE SkipWs(_, _)
SkipWs(text, pos) ==
    IF pos <= Len(text) /\ text[pos] \in Whitespace \cup {"\r"}
    THEN SkipWs(text, pos + 1) ELSE pos

\* the body of a JSON string, from the character after the opening quote
RECURSIVE ScanString(_, _, _)
ScanString(text, pos, acc) ==
    IF pos > Len(text) THEN Failed
    ELSE IF text[pos] = "\"" THEN [ok |-> TRUE, val |-> acc, pos |-> pos + 1]
    ELSE IF text[pos] \in {"\n", "\t", "\r"} THEN Failed
    ELSE IF text[pos] = "\\"
         THEN IF pos + 1 > Len(text) THEN Failed
              ELSE LET e == text[pos + 1]
                   IN  IF e \in {"\"", "\\", "/"}
                       THEN ScanString(text, pos + 2, Append(acc, e))
                       ELSE IF e = "n" THEN ScanString(text, pos + 2, Append(acc, "\n"))
                       ELSE IF e = "t" THEN ScanString(text, pos + 2, Append(acc, "\t"))
                       ELSE Failed
    ELSE ScanString(text, pos + 1, Append(acc, text[pos]))

\* dict[key] = value: an existing key keeps its place and takes the new value
DictSet(m, k, v) ==
    IF \E i \in 1..Len(m) : m[i][1] = k
    THEN [i \in 1..Len(m) |-> IF m[i][1] = k THEN <<k, v>> ELSE m[i]]
    ELSE Append(m, <<k, v>>)

RECURSIVE ParseObject(_, _)
RECURSIVE ParseMembers(_, _, _)
\* at pos: the opening quote of a member's key
ParseMembers(text, pos, acc) ==
    IF pos > Len(text) \/ text[pos] # "\"" THEN Failed
    ELSE LET k == ScanString(text, pos + 1, <<>>)
         IN  IF ~k.ok THEN Failed
             ELSE LET c == SkipWs(text, k.pos)
                  IN  IF c > Len(text) \/ text[c] # ":" THEN Failed
                      ELSE LET v == ParseObject(text, SkipWs(text, c + 1))
                           IN  IF ~v.ok THEN Failed
                               ELSE LET acc2 == DictSet(acc, k.val, v.val)
                                        e    == SkipWs(text, v.pos)
                                    IN  IF e > Len(text) THEN Failed
                                        ELSE IF text[e] = "}"
                                        THEN [ok |-> TRUE, val |-> acc2, pos |-> e + 1]
                                        ELSE IF text[e] = ","
                                        THEN ParseMembers(text, SkipWs(text, e + 1), acc2)
                                        ELSE Failed

\* at pos: the opening brace of an object
ParseObject(text, pos) ==
    IF pos > Len(text) \/ text[pos] # "{" THEN Failed
    ELSE LET p == SkipWs(text, pos + 1)
         IN  IF p <= Len(text) /\ text[p] = "}"
             THEN [ok |-> TRUE, val |-> <<>>, pos |-> p + 1]
             ELSE ParseMembers(text, p, <<>>)

\* a json.loads that stops reading at the end of the first value
json_loads_first_value(text) ==
    LET v == ParseObject(text, SkipWs(text, 1))
    IN  IF v.ok THEN [ok |-> TRUE, val |-> v.val] ELSE [ok |-> FALSE, val |-> <<>>]

\* json.loads(text): one value, whitespace around it, nothing after it
json_loads(text) ==
    LET v == ParseObject(text, SkipWs(text, 1))
    IN  IF v.ok /\ SkipWs(text, v.pos) = Len(text) + 1
        THEN [ok |-> TRUE, val |-> v.val]
        ELSE [ok |-> FALSE, val |-> <<>>]

-----------------------------------------------------------------------------
(* ListResult *)

BasicTaxon(taxid, rank, name) == [taxid |-> taxid, rank |-> rank, name |-> name]

NoTaxon == BasicTaxon(0, <<>>, <<>>)

\* ListResult.__init__: the payload parsed by json.loads
ListResult(jsondata) == json_loads(jsondata)

\* a __len__ that counts the nested entries as well
RECURSIVE ListResult_len_deep(_)
ListResult_len_deep(m) ==
    IF m = <<>> THEN 0
    ELSE 1 + ListResult_len_deep(m[1][2]) + ListResult_len_deep(Tail(m))

\* ListResult.__len__
ListResult_len(m) == Len(m)

\* a __str__ that writes the keys of every object last to first
ListResult_str_reversed(m) == DumpsIndentReversed(m, 0)

\* ListResult.__str__
ListResult_str(m) == DumpsIndent(m, 0)

\* an __iter__ that strips the rank as it strips the name
IterTaxonStripRank(taxonstr) ==
    LET parts == str_split(str_replace(taxonstr, "[", "]"), "]")
    IN  IF Len(parts) # 3 THEN [ok |-> FALSE, err |-> "ValueError", taxon |-> NoTaxon]
        ELSE LET taxid == py_int(str_strip(parts[1]))
             IN  IF ~taxid.ok
                 THEN [ok |-> FALSE, err |-> "ValueError", taxon |-> NoTaxon]
                 ELSE [ok |-> TRUE, err |-> "none",
                       taxon |-> BasicTaxon(taxid.val, str_strip(parts[2]),
                                            str_strip(parts[3]))]

\* ListResult.__iter__, the two statements that turn a key into a taxon: a
\* three-name unpacking of the split, then int() of the first part
IterTaxon(taxonstr) ==
    LET parts == str_split(str_replace(taxonstr, "[", "]"), "]")
    IN  IF Len(parts) # 3 THEN [ok |-> FALSE, err |-> "ValueError", taxon |-> NoTaxon]
        ELSE LET taxid == py_int(str_strip(parts[1]))
             IN  IF ~taxid.ok
                 THEN [ok |-> FALSE, err |-> "ValueError", taxon |-> NoTaxon]
                 ELSE [ok |-> TRUE, err |-> "none",
                       taxon |-> BasicTaxon(taxid.val, parts[2], str_strip(parts[3]))]

\* a _do_traverse that takes a leading part that is no number for taxid 0
TraverseTaxonLenient(taxonstr) ==
    LET parts == str_split(str_replace(taxonstr, "[", "]"), "]")
    IN  IF Len(parts) # 3 THEN [ok |-> FALSE, err |-> "ValueError", taxon |-> NoTaxon]
        ELSE LET taxid == py_int(str_strip(parts[1]))
             IN  [ok |-> TRUE, err |-> "none",
                  taxon |-> BasicTaxon(IF taxid.ok THEN taxid.val ELSE 0,
                                       parts[2], str_strip(parts[3]))]

\* ListResult._do_traverse, the same two statements
TraverseTaxon(taxonstr) ==
    LET parts == str_split(str_replace(taxonstr, "[", "]"), "]")
    IN  IF Len(parts) # 3 THEN [ok |-> FALSE, err |-> "ValueError", taxon |-> NoTaxon]
        ELSE LET taxid == py_int(str_strip(parts[1]))
             IN  IF ~taxid.ok
                 THEN [ok |-> FALSE, err |-> "ValueError", taxon |-> NoTaxon]
                 ELSE [ok |-> TRUE, err |-> "none",
                       taxon |-> BasicTaxon(taxid.val, parts[2], str_strip(parts[3]))]

\* what __iter__ hands out beside the taxon: a new ListResult built from the
\* dumped child when the child has entries, the child dict itself when not
IterSubtree(taxtree) ==
    IF Len(taxtree) > 0
    THEN LET r == ListResult(json_dumps(taxtree))
         IN  [ok |-> r.ok, kind |-> "ListResult", data |-> r.val]
    ELSE [ok |-> TRUE, kind |-> "dict", data |-> taxtree]

\* one next() of the generator of __iter__, idx entries of self._data consumed
IterResume(tree, idx) ==
    IF idx + 1 > Len(tree) THEN [what |-> "stop"]
    ELSE LET p == IterTaxon(tree[idx + 1][1])
             s == IterSubtree(tree[idx + 1][2])
         IN  IF ~p.ok THEN [what |-> "raise", err |-> p.err, key |-> tree[idx + 1][1]]
             ELSE IF ~s.ok
             THEN [what |-> "raise", err |-> "JSONDecodeError", key |-> tree[idx + 1][1]]
             ELSE [what |-> "yield",
                   item |-> [taxon |-> p.taxon, kind |-> s.kind, data |-> s.data]]

\* a _do_traverse whose finished inner call ends the whole walk
TraverseLoopNoReturn(stack) ==
    IF stack = <<>> THEN [what |-> "stop"]
    ELSE LET top == stack[Len(stack)]
         IN  IF top.idx + 1 > Len(top.tree) THEN [what |-> "stop"]
             ELSE LET p == TraverseTaxon(top.tree[top.idx + 1][1])
                  IN  IF ~p.ok
                      THEN [what |-> "raise", err |-> p.err,
                            key |-> top.tree[top.idx + 1][1]]
                      ELSE [what |-> "yield", taxon |-> p.taxon,
                            stack |-> [stack EXCEPT ![Len(stack)].idx = top.idx + 1]]

\* _do_traverse is a generator that calls itself: the live calls are a stack of
\* frames [tree, idx], idx the entry of tree that the frame yielded last.
\* TraverseLoop takes the for loop of the top frame to its next entry; a frame
\* whose loop is over returns into the loop of the frame below it.
RECURSIVE TraverseLoop(_)
TraverseLoop(stack) ==
    IF stack = <<>> THEN [what |-> "stop"]
    ELSE LET top == stack[Len(stack)]
         IN  IF top.idx + 1 > Len(top.tree)
             THEN TraverseLoop(SubSeq(stack, 1, Len(stack) - 1))
             ELSE LET p == TraverseTaxon(top.tree[top.idx + 1][1])
                  IN  IF ~p.ok
                      THEN [what |-> "raise", err |-> p.err,
                            key |-> top.tree[top.idx + 1][1]]
                      ELSE [what |-> "yield", taxon |-> p.taxon,
                            stack |-> [stack EXCEPT ![Len(stack)].idx = top.idx + 1]]

\* a _do_traverse that never walks a subtree
do_traverse_flat(stack) == TraverseLoop(stack)

\* one next() of the generator of traverse: after the yield of an entry, the
\* entry's subtree is walked if it has entries, then the loop goes on
do_traverse(stack) ==
    LET top == stack[Len(stack)]
    IN  IF top.idx > 0 /\ Len(top.tree[top.idx][2]) > 0
        THEN TraverseLoop(Append(stack, [tree |-> top.tree[top.idx][2], idx |-> 0]))
        ELSE TraverseLoop(stack)

\* what a generator of traverse, made anew and run to its end, yields
RECURSIVE TraverseRun(_, _)
TraverseRunFrom(r, acc) ==
    IF r.what = "yield" THEN TraverseRun(r.stack, Append(acc, r.taxon))
    ELSE [out |-> acc, end |-> IF r.what = "raise" THEN "error" ELSE "done"]

TraverseRun(stack, acc) == TraverseRunFrom(do_traverse(stack), acc)

StackPath(stack) == [i \in 1..Len(stack) |-> stack[i].idx]

-----------------------------------------------------------------------------
(* The results under study *)

MaxNodes == 3

MaxTaxid == 11

MakeKey(taxid, rank, name) == taxid \o <<" ", "[">> \o rank \o <<"]", " ">> \o name

\* keys of trees: two well-formed ones (one name holds quotes), a name with
\* brackets of its own, and a leading part that is no number
KeyGenus    == MakeKey(<<"8">>, <<"g">>, <<"A">>)
KeySpecies  == MakeKey(<<"9">>, <<"s">>, <<"A", " ", "\"", "m", "\"">>)
KeyBrackets == MakeKey(<<"7">>, <<"s">>, <<"[", "C", "]", " ", "a">>)
KeyNoNumber == MakeKey(<<"x">>, <<"s">>, <<"B">>)

KeyPool == {KeyGenus, KeySpecies, KeyBrackets, KeyNoNumber}

TopKeys(m) == {m[i][1] : i \in 1..Len(m)}

\* every mapping of exactly n entries, nested ones counted, keys from KeyPool
RECURSIVE Forests(_)
Forests(n) ==
    IF n = 0 THEN {<<>>}
    ELSE UNION {
           {<<<<k, sub>>>> \o rest :
               k \in KeyPool,
               sub \in Forests(a),
               rest \in {r \in Forests(n - 1 - a) : TRUE}} : a \in 0..(n - 1)}

DistinctKeys(m) == \A i, j \in 1..Len(m) : i # j => m[i][1] # m[j][1]

RECURSIVE IsDict(_)
IsDict(m) == DistinctKeys(m) /\ \A i \in 1..Len(m) : IsDict(m[i][2])

TreePool == {m \in UNION {Forests(n) : n \in 0..MaxNodes} : IsDict(m)}

RankPool == {<<"s">>, <<"n", "o", " ", "r">>, <<" ", "g", " ">>}

NamePool ==
    { <<"A">>, <<"A", " ", "m">>, <<" ", "A", " ">>, <<"A", "\"", "b">>,
      <<"[", "C", "]", " ", "a">>, <<"A", "[", "b">>, <<"A", "]">> }

NoErr == [type |-> "none", key |-> <<>>]

PyNone == [none |-> TRUE]

NoExc == [type |-> "none", msg |-> ""]

NoTmp == [state |-> "none", flushed |-> FALSE, synced |-> FALSE]

\* no adapter called yet
NoCallYet ==
    /\ nodes = "nonempty"
    /\ call = [fn |-> "none"]
    /\ pc = "idle"
    /\ procs = <<>>
    /\ tmpfile = NoTmp
    /\ result = PyNone
    /\ exc = NoExc
    /\ warnings = <<>>
    /\ logs = <<>>

NewGen == [status |-> "none", idx |-> 0, stack |-> <<>>]

NoLast == [op |-> "none", n |-> 0, text |-> <<>>]

NoSub == [kind |-> "none", data |-> <<>>, end |-> "none", out |-> <<>>, err |-> "none"]

GensIdle ==
    /\ it = NewGen /\ itOut = <<>> /\ itErr = NoErr
    /\ tr = NewGen /\ trOut = <<>> /\ trPaths = <<>> /\ trErr = NoErr
    /\ last = NoLast
    /\ abandoned = [it |-> FALSE, tr |-> FALSE]
    /\ subRun = NoSub

\* the result was built from the text json.dumps gives for its mapping, as
\* __iter__ builds the result of a subtree
BuiltFromDump ==
    /\ payload = json_dumps(data)
    /\ written = [form |-> "compact", nest |-> data]
    /\ built = [ok |-> TRUE, val |-> data]

InitTree ==
    /\ data \in TreePool
    /\ keyParts = <<>>
    /\ BuiltFromDump
    /\ GensIdle
    /\ NoCallYet

InitKey ==
    /\ \E n \in 0..MaxTaxid, rank \in RankPool, name \in NamePool :
          /\ keyParts = <<n, rank, name>>
          /\ data = <<<<MakeKey(py_str(n), rank, name), <<>>>>>>
    /\ BuiltFromDump
    /\ GensIdle
    /\ NoCallYet

\* an iter(result) that goes on from where the generator before it had got to
IterStartResuming ==
    /\ built.ok
    /\ it' = [it EXCEPT !.status = "suspended"]
    /\ itOut' = <<>>
    /\ itErr' = NoErr
    /\ abandoned' = [abandoned EXCEPT !.it = @ \/ (it.status = "suspended" /\ it.idx > 0)]
    /\ UNCHANGED <<payload, written, built, subRun, data, keyParts, last, tr, trOut, trPaths, trErr,
                   callVars>>

\* iter(result): ListResult.__iter__ called, no statement of it run yet
IterStart ==
    /\ built.ok
    /\ it' = [NewGen EXCEPT !.status = "suspended"]
    /\ itOut' = <<>>
    /\ itErr' = NoErr
    /\ abandoned' = [abandoned EXCEPT !.it = @ \/ (it.status = "suspended" /\ it.idx > 0)]
    /\ UNCHANGED <<payload, written, built, subRun, data, keyParts, last, tr, trOut, trPaths, trErr,
                   callVars>>

\* next() on the generator of __iter__
IterNext ==
    /\ it.status = "suspended"
    /\ LET r == IterResume(data, it.idx)
       IN  IF r.what = "yield"
           THEN /\ it' = [it EXCEPT !.idx = it.idx + 1]
                /\ itOut' = Append(itOut, r.item)
                /\ itErr' = itErr
           ELSE IF r.what = "raise"
           THEN /\ it' = [it EXCEPT !.status = "error"]
                /\ itErr' = [type |-> r.err, key |-> r.key]
                /\ itOut' = itOut
           ELSE /\ it' = [it EXCEPT !.status = "done"]
                /\ UNCHANGED <<itOut, itErr>>
    /\ UNCHANGED <<payload, written, built, subRun, data, keyParts, last, abandoned,
                   tr, trOut, trPaths, trErr, callVars>>

\* result.traverse: the property makes the generator over self._data
TraverseStart ==
    /\ built.ok
    /\ tr' = [NewGen EXCEPT !.status = "suspended",
                            !.stack = <<[tree |-> data, idx |-> 0]>>]
    /\ trOut' = <<>>
    /\ trPaths' = <<>>
    /\ trErr' = NoErr
    /\ abandoned' = [abandoned EXCEPT !.tr = @ \/ (tr.status = "suspended" /\ trOut # <<>>)]
    /\ UNCHANGED <<payload, written, built, subRun, data, keyParts, last,
                   it, itOut, itErr, callVars>>

\* next() on the generator of traverse
TraverseNext ==
    /\ tr.status = "suspended"
    /\ LET r == do_traverse(tr.stack)
       IN  IF r.what = "yield"
           THEN /\ tr' = [tr EXCEPT !.stack = r.stack]
                /\ trOut' = Append(trOut, r.taxon)
                /\ trPaths' = Append(trPaths, StackPath(r.stack))
                /\ trErr' = trErr
           ELSE IF r.what = "raise"
           THEN /\ tr' = [tr EXCEPT !.status = "error", !.stack = <<>>]
                /\ trErr' = [type |-> r.err, key |-> r.key]
                /\ UNCHANGED <<trOut, trPaths>>
           ELSE /\ tr' = [tr EXCEPT !.status = "done", !.stack = <<>>]
                /\ UNCHANGED <<trOut, trPaths, trErr>>
    /\ UNCHANGED <<payload, written, built, subRun, data, keyParts, last, abandoned,
                   it, itOut, itErr, callVars>>

\* len(result)
CallLen ==
    /\ built.ok
    /\ last' = [op |-> "len", n |-> ListResult_len(data), text |-> <<>>]
    /\ UNCHANGED <<payload, written, built, subRun, data, keyParts, abandoned,
                   it, itOut, itErr, tr, trOut, trPaths, trErr, callVars>>

\* str(result)
CallStr ==
    /\ built.ok
    /\ last' = [op |-> "str", n |-> 0, text |-> ListResult_str(data)]
    /\ UNCHANGED <<payload, written, built, subRun, data, keyParts, abandoned,
                   it, itOut, itErr, tr, trOut, trPaths, trErr, callVars>>

\* the frames of the suspended _do_traverse calls hold references into
\* self._data: what they see is what the mapping holds now
RECURSIVE Rebase(_, _)
Rebase(stack, tree) ==
    IF stack = <<>> THEN <<>>
    ELSE <<[tree |-> tree, idx |-> Head(stack).idx]>>
         \o (IF Len(stack) = 1 THEN <<>>
             ELSE Rebase(Tail(stack), tree[Head(stack).idx][2]))

\* the key a consumer adds to a subtree it was handed
ConsumerKey == KeySpecies

\* the consumer runs subtree[key] = {} on the j-th subtree __iter__ yielded.
\* The subtree of a taxon with children is a ListResult built from a dump of
\* the child mapping, an object of its own; the subtree of a leaf is the
\* empty dict that sits in self._data, the very object.
ConsumerMutates ==
    /\ built.ok
    /\ \E j \in 1..Len(itOut) :
          /\ ConsumerKey \notin TopKeys(itOut[j].data)
          /\ itOut' = [itOut EXCEPT ![j].data = DictSet(@, ConsumerKey, <<>>)]
          /\ IF itOut[j].kind = "dict"
             THEN /\ data' = [data EXCEPT ![j] = <<@[1], DictSet(@[2], ConsumerKey, <<>>)>>]
                  /\ tr' = [tr EXCEPT !.stack = Rebase(@, data')]
             ELSE UNCHANGED <<data, tr>>
    /\ UNCHANGED <<payload, written, built, subRun, keyParts, last, abandoned,
                   it, itErr, trOut, trPaths, trErr, callVars>>

\* [t for t in tree.traverse], tree the j-th subtree __iter__ yielded: a
\* ListResult is traversed to the end; the dict yielded for a leaf has no
\* attribute traverse
SubtreeRun(item) ==
    IF item.kind = "ListResult"
    THEN LET r == TraverseRun(<<[tree |-> item.data, idx |-> 0]>>, <<>>)
         IN  [kind |-> "ListResult", data |-> item.data, end |-> r.end, out |-> r.out,
              err |-> IF r.end = "error" THEN "ValueError" ELSE "none"]
    ELSE [kind |-> "dict", data |-> item.data, end |-> "error", out |-> <<>>,
          err |-> "AttributeError"]

SubtreeTraverse ==
    /\ built.ok
    /\ \E j \in 1..Len(itOut) : subRun' = SubtreeRun(itOut[j])
    /\ UNCHANGED <<payload, written, built, data, keyParts, last, abandoned,
                   it, itOut, itErr, tr, trOut, trPaths, trErr, callVars>>

NextTree ==
    \/ IterStart
    \/ IterNext
    \/ TraverseStart
    \/ TraverseNext

SpecTree == InitTree /\ [][NextTree]_vars

SpecKey == InitKey /\ [][NextTree]_vars

\* iterations and traversals of a result, and traversals of the subtrees its
\* iteration hands out
NextSub ==
    \/ IterStart
    \/ IterNext
    \/ TraverseStart
    \/ TraverseNext
    \/ SubtreeTraverse

SpecSub == InitTree /\ [][NextSub]_vars

-----------------------------------------------------------------------------
(* Results built from a payload *)

MaxPayloadNodes == 2

PayloadForms == {"compact", "indented", "cut short", "text after", "empty"}

PayloadNests == UNION {Forests(n) : n \in 0..MaxPayloadNodes}

\* a payload: what json.dumps writes for a nest of (key, value) pairs, a key
\* written twice in one object included; the same with indentation; either of
\* these without its last character, or with text after it; and no text at all
PayloadText(form, m) ==
    CASE form = "compact"    -> json_dumps(m)
      [] form = "indented"   -> DumpsIndent(m, 0)
      [] form = "cut short"  -> SubSeq(DumpsIndent(m, 0), 1, Len(DumpsIndent(m, 0)) - 1)
      [] form = "text after" -> json_dumps(m) \o <<"x">>
      [] form = "empty"      -> <<>>

\* ListResult(payload): self._data is what json.loads returns, or json.loads
\* raises JSONDecodeError and there is no result
InitBuild ==
    /\ \E form \in PayloadForms, m \in PayloadNests :
          /\ form = "empty" => m = <<>>
          /\ written = [form |-> form, nest |-> m]
          /\ payload = PayloadText(form, m)
    /\ built = ListResult(payload)
    /\ data = built.val
    /\ keyParts = <<>>
    /\ GensIdle
    /\ NoCallYet

NextBuild ==
    \/ IterStart
    \/ IterNext
    \/ TraverseStart
    \/ TraverseNext
    \/ CallLen
    \/ CallStr

SpecBuild == InitBuild /\ [][NextBuild]_vars

NextOwn ==
    \/ IterStart
    \/ IterNext
    \/ TraverseStart
    \/ TraverseNext
    \/ CallLen
    \/ CallStr
    \/ ConsumerMutates

SpecOwn == InitBuild /\ [][NextOwn]_vars

-----------------------------------------------------------------------------
(* What the claims about ListResult speak of *)

GoodKeys == {KeyGenus, KeySpecies}

\* the taxon that each well-formed key of KeyPool was written from
TaxonOf(key) ==
    IF key = KeyGenus THEN BasicTaxon(8, <<"g">>, <<"A">>)
    ELSE BasicTaxon(9, <<"s">>, <<"A", " ", "\"", "m", "\"">>)

RECURSIVE KeysWithin(_, _)
KeysWithin(m, allowed) ==
    \A i \in 1..Len(m) : m[i][1] \in allowed /\ KeysWithin(m[i][2], allowed)

TopKeysWithin(m, allowed) == \A i \in 1..Len(m) : m[i][1] \in allowed

RECURSIVE NodeCount(_)
NodeCount(m) ==
    IF m = <<>> THEN 0 ELSE 1 + NodeCount(m[1][2]) + NodeCount(Tail(m))

\* where the entries of a tree sit: <<i>> the i-th top-level entry, <<i, j>>
\* the j-th entry of its mapping, and so on
RECURSIVE NodePaths(_)
NodePaths(m) ==
    UNION {{<<i>>} \cup {<<i>> \o p : p \in NodePaths(m[i][2])} : i \in 1..Len(m)}

RECURSIVE EntryAt(_, _)
EntryAt(m, path) ==
    IF Len(path) = 1 THEN m[path[1]] ELSE EntryAt(m[path[1]][2], Tail(path))

\* depth-first pre-order: an entry, then the whole of its subtree, then the
\* entry after it
RECURSIVE Preorder(_, _, _)
Preorder(m, prefix, i) ==
    IF i > Len(m) THEN <<>>
    ELSE <<Append(prefix, i)>>
         \o Preorder(m[i][2], Append(prefix, i), 1)
         \o Preorder(m, prefix, i + 1)

IsStrictPrefix(p, q) == Len(p) < Len(q) /\ SubSeq(q, 1, Len(p)) = p

IsPrefixSeq(p, q) == Len(p) <= Len(q) /\ SubSeq(q, 1, Len(p)) = p

NoBrackets(s) == \A i \in 1..Len(s) : s[i] \notin {"[", "]"}

\* r is s without the whitespace at its two ends
IsStripOf(r, s) ==
    \E a, b \in 0..Len(s) :
        /\ a + b <= Len(s)
        /\ r = SubSeq(s, a + 1, Len(s) - b)
        /\ \A i \in 1..a : s[i] \in Whitespace
        /\ \A i \in (Len(s) - b + 1)..Len(s) : s[i] \in Whitespace
        /\ r # <<>> => (r[1] \notin Whitespace /\ r[Len(r)] \notin Whitespace)

\* the taxon is the one the key was written from
TaxonFromParts(taxon) ==
    /\ taxon.taxid = keyParts[1]
    /\ taxon.rank = keyParts[2]
    /\ IsStripOf(taxon.name, keyParts[3])

HomoSapiens ==
    <<"9", "6", "0", "6", " ", "[", "s", "p", "e", "c", "i", "e", "s", "]", " ",
      "H", "o", "m", "o", " ", "s", "a", "p", "i", "e", "n", "s">>

HomoSapiensTaxon ==
    BasicTaxon(9606, <<"s", "p", "e", "c", "i", "e", "s">>,
               <<"H", "o", "m", "o", " ", "s", "a", "p", "i", "e", "n", "s">>)

\* C1: on a tree whose keys are all well formed, traverse() never fails, visits
\* no entry twice, visits an entry only after every ancestor of it, yields the
\* taxon of the entry it visits, and once exhausted has visited every entry:
\* as many taxa as the tree has nodes, nested ones counted.
C1_TraverseEachOnceParentFirst ==
    (KeysWithin(data, GoodKeys) /\ tr.status # "none") =>
        /\ tr.status # "error"
        /\ Len(trOut) = Len(trPaths)
        /\ \A i, j \in 1..Len(trPaths) : i # j => trPaths[i] # trPaths[j]
        /\ \A j \in 1..Len(trPaths) :
              /\ trPaths[j] \in NodePaths(data)
              /\ trOut[j] = TaxonOf(EntryAt(data, trPaths[j])[1])
              /\ \A p \in NodePaths(data) :
                    IsStrictPrefix(p, trPaths[j]) =>
                        \E i \in 1..(j - 1) : trPaths[i] = p
        /\ tr.status = "done" =>
              /\ Len(trOut) = NodeCount(data)
              /\ {trPaths[i] : i \in 1..Len(trPaths)} = NodePaths(data)

C1_Witness ==
    /\ KeysWithin(data, GoodKeys)
    /\ tr.status = "done"
    /\ NodeCount(data) >= 3
    /\ \E p \in NodePaths(data) : Len(p) >= 2

\* C2: on a tree whose keys are all well formed, what traverse() has yielded
\* is at every moment a prefix of the depth-first pre-order of the tree in
\* mapping order (a key, then the whole block of its descendants, then the next
\* sibling), and is the whole of it once the traversal is exhausted; a chain of
\* three comes out parent first.
C2_TraversePreorder ==
    (KeysWithin(data, GoodKeys) /\ tr.status # "none") =>
        /\ IsPrefixSeq(trPaths, Preorder(data, <<>>, 1))
        /\ tr.status = "done" => trPaths = Preorder(data, <<>>, 1)
        /\ (tr.status = "done"
            /\ data = <<<<KeyGenus, <<<<KeySpecies, <<<<KeyGenus, <<>>>>>>>>>>>>>>) =>
              trOut = <<TaxonOf(KeyGenus), TaxonOf(KeySpecies), TaxonOf(KeyGenus)>>

C2_Witness ==
    /\ KeysWithin(data, GoodKeys)
    /\ tr.status = "done"
    /\ Len(data) = 2
    /\ Len(data[1][2]) > 0
    /\ Len(trOut) = 3

\* C3: when the top-level keys are well formed, iterate() never fails and
\* yields, in mapping order, one pair per top-level key: the taxon of the key,
\* and a ListResult holding exactly the key's nested mapping when that has
\* entries, the empty dict when it has none.
C3_IteratePairs ==
    (TopKeysWithin(data, GoodKeys) /\ it.status # "none") =>
        /\ it.status # "error"
        /\ Len(itOut) <= Len(data)
        /\ \A i \in 1..Len(itOut) :
              /\ itOut[i].taxon = TaxonOf(data[i][1])
              /\ IF Len(data[i][2]) > 0
                 THEN itOut[i].kind = "ListResult" /\ itOut[i].data = data[i][2]
                 ELSE itOut[i].kind = "dict" /\ itOut[i].data = <<>>
        /\ it.status = "done" => Len(itOut) = Len(data)

C3_Witness ==
    /\ TopKeysWithin(data, GoodKeys)
    /\ it.status = "done"
    /\ Len(itOut) = 2
    /\ itOut[1].kind = "ListResult"
    /\ KeySpecies \in TopKeys(itOut[1].data)
    /\ itOut[2].kind = "dict"

\* C4: a key written as "<taxid> [<rank>] <name>" with no bracket in rank or
\* name makes neither iterate() nor traverse() fail, and the taxon either
\* yields has the number the digits were written from, the rank exactly as
\* written, and the name without the whitespace at its ends; "9606 [species]
\* Homo sapiens" parses to (9606, "species", "Homo sapiens") in both.
C4_KeyParsing ==
    /\ IterTaxon(HomoSapiens).taxon = HomoSapiensTaxon
    /\ TraverseTaxon(HomoSapiens).taxon = HomoSapiensTaxon
    /\ (keyParts # <<>> /\ NoBrackets(keyParts[2]) /\ NoBrackets(keyParts[3])) =>
          /\ it.status # "error"
          /\ tr.status # "error"
          /\ \A i \in 1..Len(itOut) : TaxonFromParts(itOut[i].taxon)
          /\ \A i \in 1..Len(trOut) : TaxonFromParts(trOut[i])
          /\ it.status = "done" => Len(itOut) = 1
          /\ tr.status = "done" => Len(trOut) = 1

C4_Witness ==
    /\ keyParts # <<>>
    /\ keyParts[1] >= 10
    /\ keyParts[2] = <<" ", "g", " ">>
    /\ keyParts[3] = <<" ", "A", " ">>
    /\ it.status = "done"
    /\ tr.status = "done"

\* C5: a key whose name holds a bracket of its own still makes iterate() and
\* traverse() yield the taxon with the taxid, the rank and the name it was
\* written from.
C5_BracketNamesTolerated ==
    (keyParts # <<>> /\ NoBrackets(keyParts[2]) /\ ~NoBrackets(keyParts[3])) =>
        /\ it.status # "error"
        /\ tr.status # "error"
        /\ \A i \in 1..Len(itOut) : TaxonFromParts(itOut[i].taxon)
        /\ \A i \in 1..Len(trOut) : TaxonFromParts(trOut[i])
        /\ it.status = "done" => Len(itOut) = 1
        /\ tr.status = "done" => Len(trOut) = 1

\* C6: in a tree whose keys are well formed but for brackets inside names, no
\* key makes iterate() or traverse() raise: both go on to the remaining keys
\* and end having yielded a taxon for every key they walk.
C6_BracketNamesNeverRaise ==
    KeysWithin(data, GoodKeys \cup {KeyBrackets}) =>
        /\ it.status # "error"
        /\ tr.status # "error"
        /\ it.status = "done" => Len(itOut) = Len(data)
        /\ tr.status = "done" => Len(trOut) = NodeCount(data)

-----------------------------------------------------------------------------
(* The adapters: values, arguments, the file system and the subprocess *)

MaxIds == 2

\* lists of taxids
IdsPool == {[i \in 1..n |-> 5 * i + 2] : n \in 0..MaxIds}

\* lists of lists of taxids, for lca(multi=True)
MultiIdsPool ==
    {[i \in 1..n |-> <<5 * i + 2, 5 * i + 3>>] : n \in 0..MaxIds} \cup {<<<<>>>>}

ThreadsPool ==
    {PyNone, [int |-> 0], [int |-> 2], [str |-> <<"1", "6">>], [str |-> <<"x">>]}

DataDirPool == {PyNone, [path |-> ""], [path |-> "/d"]}

NodesStates == {"absent", "empty", "nonempty"}

ExitCodes == {0, 1}

ErrPool == {"", "taxonkit: error"}

\* what a process may have written to its standard output: nothing, an empty
\* JSON object, a JSON tree, one line of lca, two lines of lca, and the line
\* of lca for the second of two queries alone
OutPool ==
    { <<>>,
      <<"1", "2", " ", "1", "3", "\t", "1", "2", "\n">>,
      <<"{", "}">>,
      <<"{", "\"">> \o KeyGenus \o <<"\"", ":", " ", "{", "}", "}", "\n">>,
      <<"7", " ", "8", "\t", "7", "\n">>,
      <<"7", " ", "8", "\t", "7", "\n", "9", "\t", "0", "\n">> }

\* an argument written in the source, and one computed as text
A(s) == [lit |-> s]

T(chars) == [text |-> chars]

\* Python's truth value of an argument
Truthy(v) ==
    CASE "none" \in DOMAIN v -> FALSE
      [] "int"  \in DOMAIN v -> v.int # 0
      [] "str"  \in DOMAIN v -> v.str # <<>>
      [] "path" \in DOMAIN v -> v.path # ""
      [] "lit"  \in DOMAIN v -> v.lit # ""
      [] "list" \in DOMAIN v -> v.list # <<>>
      [] "bool" \in DOMAIN v -> v.bool

RECURSIVE Join(_, _)
\* sep.join(parts)
Join(sep, parts) ==
    IF parts = <<>> THEN <<>>
    ELSE IF Len(parts) = 1 THEN parts[1]
    ELSE parts[1] \o sep \o Join(sep, Tail(parts))

\* map(str, ids)
StrEach(ids) == [i \in 1..Len(ids) |-> py_str(ids[i])]

\* os.path.realpath
RealPath(path) == IF path = "/d" THEN "/real/d" ELSE "/cwd"

\* a validate_data_dir that returns the path as it was given
validate_data_dir_asis(path) ==
    IF nodes = "absent" \/ nodes = "empty"
    THEN [ok |-> FALSE, val |-> PyNone]
    ELSE [ok |-> TRUE, val |-> A(path)]

\* validate_data_dir: NCBITaxonomyDumpNotFoundError unless nodes.dmp is a file
\* of nonzero size
validate_data_dir(path) ==
    IF nodes = "absent" \/ nodes = "empty"
    THEN [ok |-> FALSE, val |-> PyNone]
    ELSE [ok |-> TRUE, val |-> A(RealPath(path))]

\* log(f'invalid thread count "{value}"; resetting to taxonkit default',
\*     level="warning")
InvalidThreads(value) ==
    [level |-> "warning", value |-> value,
     msg |-> "invalid thread count \"{value}\"; resetting to taxonkit default"]

\* int(value) for the values a caller may pass as threads: an int is itself,
\* text is parsed, a finite float is cut to its whole part, a float that is not
\* a number is a ValueError and an infinite one an OverflowError, a list is a
\* TypeError
int_of(value) ==
    CASE "int" \in DOMAIN value -> [ok |-> TRUE, val |-> value.int, exc |-> "none"]
      [] "str" \in DOMAIN value ->
            IF py_int(value.str).ok
            THEN [ok |-> TRUE, val |-> py_int(value.str).val, exc |-> "none"]
            ELSE [ok |-> FALSE, val |-> 0, exc |-> "ValueError"]
      [] "float" \in DOMAIN value ->
            IF value.float.kind = "finite"
            THEN [ok |-> TRUE, val |-> value.float.whole, exc |-> "none"]
            ELSE [ok |-> FALSE, val |-> 0,
                  exc |-> IF value.float.kind = "nan" THEN "ValueError"
                          ELSE "OverflowError"]
      [] "list" \in DOMAIN value -> [ok |-> FALSE, val |-> 0, exc |-> "TypeError"]

\* a validate_threads that hands back the text it was given when int() takes it
validate_threads_as_given(value) ==
    IF value = PyNone THEN [ret |-> PyNone, logs |-> <<>>, exc |-> "none"]
    ELSE LET n == int_of(value)
         IN  IF n.ok
             THEN [ret |-> IF "str" \in DOMAIN value THEN T(value.str)
                           ELSE T(py_str(n.val)),
                   logs |-> <<>>, exc |-> "none"]
             ELSE IF n.exc = "ValueError"
             THEN [ret |-> PyNone, logs |-> <<InvalidThreads(value)>>, exc |-> "none"]
             ELSE [ret |-> PyNone, logs |-> <<>>, exc |-> n.exc]

\* validate_threads: the text of int(value); None and a logged warning when
\* int() raises ValueError; any other exception of int() is not caught
validate_threads(value) ==
    IF value = PyNone THEN [ret |-> PyNone, logs |-> <<>>, exc |-> "none"]
    ELSE LET n == int_of(value)
         IN  IF n.ok THEN [ret |-> T(py_str(n.val)), logs |-> <<>>, exc |-> "none"]
             ELSE IF n.exc = "ValueError"
             THEN [ret |-> PyNone, logs |-> <<InvalidThreads(value)>>, exc |-> "none"]
             ELSE [ret |-> PyNone, logs |-> <<>>, exc |-> n.exc]

\* if threads: arglist.extend(("--threads", validate_threads(threads)))
ThreadsArgs(threads) ==
    IF Truthy(threads) THEN <<A("--threads"), validate_threads(threads).ret>> ELSE <<>>

ThreadsLogs(threads) ==
    IF Truthy(threads) THEN validate_threads(threads).logs ELSE <<>>

\* if data_dir: arglist.extend(("--data-dir", validate_data_dir(data_dir)))
DataDirArgs(data_dir) ==
    IF Truthy(data_dir)
    THEN <<A("--data-dir"), validate_data_dir(data_dir.path).val>> ELSE <<>>

DataDirRaises(data_dir) == Truthy(data_dir) /\ ~validate_data_dir(data_dir.path).ok

\* how the statements of an adapter before its first communicate() end
Warn(msg) ==
    [do |-> "warn", type |-> "UserWarning", msg |-> msg, args |-> <<>>,
     stdin |-> PyNone, logs |-> <<>>, tmp |-> FALSE]

RaiseOut(type, msg, lg) ==
    [do |-> "raise", type |-> type, msg |-> msg, args |-> <<>>,
     stdin |-> PyNone, logs |-> lg, tmp |-> FALSE]

PopenOut(args, stdin, lg, tmp) ==
    [do |-> "popen", type |-> "", msg |-> "", args |-> args,
     stdin |-> stdin, logs |-> lg, tmp |-> tmp]

HasNone(args) == \E i \in 1..Len(args) : args[i] = PyNone

NewProc(args, stdin) ==
    [args |-> args, stdin |-> stdin, state |-> "running", rc |-> 0,
     out |-> <<>>, err |-> ""]

Return(v) == pc' = "returned" /\ result' = v /\ exc' = NoExc

Raise(type, msg) ==
    pc' = "raised" /\ result' = PyNone /\ exc' = [type |-> type, msg |-> msg]

\* Popen(arglist): a TypeError, and no process, when an argument is None
Popen(args, stdin, nextpc) ==
    IF HasNone(args)
    THEN /\ Raise("TypeError", "expected str, bytes or os.PathLike object, not NoneType")
         /\ procs' = procs
    ELSE /\ procs' = Append(procs, NewProc(args, stdin))
         /\ pc' = nextpc
         /\ UNCHANGED <<result, exc>>

\* a new call runs up to its first communicate(), or to its end
Begin(o) ==
    /\ logs' = o.logs
    /\ IF o.do = "warn"
       THEN /\ warnings' = <<o.msg>>
            /\ Return(PyNone)
            /\ procs' = <<>>
            /\ tmpfile' = NoTmp
       ELSE IF o.do = "raise"
       THEN /\ warnings' = <<>>
            /\ Raise(o.type, o.msg)
            /\ procs' = <<>>
            /\ tmpfile' = NoTmp
       ELSE /\ warnings' = <<>>
            /\ IF HasNone(o.args)
               THEN /\ Raise("TypeError",
                             "expected str, bytes or os.PathLike object, not NoneType")
                    /\ procs' = <<>>
                    /\ tmpfile' = IF o.tmp THEN [NoTmp EXCEPT !.state = "closed"]
                                  ELSE NoTmp
               ELSE /\ procs' = <<NewProc(o.args, o.stdin)>>
                    /\ pc' = "communicate"
                    /\ result' = PyNone
                    /\ exc' = NoExc
                    /\ tmpfile' = IF o.tmp THEN [NoTmp EXCEPT !.state = "open"]
                                  ELSE NoTmp

\* a call starts from scratch: nothing of an earlier call is kept
CanCall == pc = "idle"

\* communicate() returns: the process has exited and its output is read
Exited(rc, out, err) ==
    procs' = [procs EXCEPT ![Len(procs)] =
                 [@ EXCEPT !.state = "exited", !.rc = rc, !.out = out, !.err = err]]

\* pd.read_csv(StringIO(out), ...): EmptyDataError when there is nothing to parse
read_csv(out) ==
    IF str_strip(out) = <<>>
    THEN [ok |-> FALSE, val |-> PyNone]
    ELSE [ok |-> TRUE, val |-> [kind |-> "DataFrame", text |-> out]]

\* the file system changes under the program
EnvNodes ==
    /\ \E n \in NodesStates \ {nodes} : nodes' = n
    /\ UNCHANGED <<treeVars, call, pc, procs, tmpfile, result, exc, warnings, logs>>

\* what validate_threads is called with: None, ints, every text of up to two
\* of the characters below, floats, lists
ThreadChars == {"1", "6", "x", " ", "-", "_"}

ThreadValuePool ==
    {PyNone}
    \cup {[int |-> n] : n \in {0 - 1, 0, 2, 16}}
    \cup {[str |-> s] : s \in {<<>>} \cup {<<c>> : c \in ThreadChars}
                                \cup {<<c, d>> : c \in ThreadChars, d \in ThreadChars}}
    \cup {[float |-> [kind |-> "finite", whole |-> 2]],
          [float |-> [kind |-> "nan", whole |-> 0]],
          [float |-> [kind |-> "inf", whole |-> 0]]}
    \cup {[list |-> <<>>], [list |-> <<4>>]}

\* validate_threads(value), called on its own
CallValidateThreads ==
    /\ CanCall
    /\ \E value \in ThreadValuePool :
          LET r == validate_threads(value)
          IN  /\ call' = [fn |-> "validate_threads", ids |-> <<>>, data_dir |-> PyNone,
                          value |-> value, nodes |-> nodes]
              /\ logs' = r.logs
              /\ IF r.exc # "none" THEN Raise(r.exc, "") ELSE Return(r.ret)
    /\ warnings' = <<>>
    /\ procs' = <<>>
    /\ tmpfile' = NoTmp
    /\ UNCHANGED <<treeVars, nodes>>

-----------------------------------------------------------------------------
(* list *)

list_enter(ids, threads, data_dir) ==
    LET idlist == Join(<<",">>, StrEach(ids))
    IN  IF idlist = <<>> THEN Warn("No input for pytaxonkit.list")
        ELSE IF DataDirRaises(data_dir)
        THEN RaiseOut("NCBITaxonomyDumpNotFoundError", data_dir.path, ThreadsLogs(threads))
        ELSE PopenOut(<<A("taxonkit"), A("list"), A("--json"), A("--show-name"),
                        A("--show-rank"), A("--ids"), T(idlist)>>
                      \o ThreadsArgs(threads) \o DataDirArgs(data_dir),
                      PyNone, ThreadsLogs(threads), FALSE)

CallList ==
    /\ CanCall
    /\ \E ids \in IdsPool, raw \in BOOLEAN, threads \in ThreadsPool,
          data_dir \in DataDirPool :
          /\ call' = [fn |-> "list", ids |-> ids, raw |-> raw, threads |-> threads,
                      data_dir |-> data_dir, nodes |-> nodes]
          /\ Begin(list_enter(ids, threads, data_dir))
    /\ UNCHANGED <<treeVars, nodes>>

ListCommunicated ==
    /\ pc = "communicate" /\ call.fn = "list"
    /\ \E rc \in ExitCodes, out \in OutPool, err \in ErrPool :
          /\ Exited(rc, out, err)
          /\ IF rc # 0 THEN Raise("TaxonKitCLIError", err)
             ELSE LET r == json_loads(out)
                  IN  IF ~r.ok THEN Raise("JSONDecodeError", "")
                      ELSE IF call.raw THEN Return([kind |-> "dict", data |-> r.val])
                      ELSE Return([kind |-> "ListResult", data |-> r.val])
    /\ UNCHANGED <<treeVars, nodes, call, tmpfile, warnings, logs>>

-----------------------------------------------------------------------------
(* lineage *)

FormatPool == {PyNone, A("{family};{genus}")}

lineage_enter(ids, threads, data_dir) ==
    LET idlist == Join(<<"\n">>, StrEach(ids))
    IN  IF idlist = <<>> THEN Warn("No input for pytaxonkit.lineage")
        ELSE IF DataDirRaises(data_dir)
        THEN RaiseOut("NCBITaxonomyDumpNotFoundError", data_dir.path, ThreadsLogs(threads))
        ELSE PopenOut(<<A("taxonkit"), A("lineage"), A("--show-lineage-taxids"),
                        A("--show-rank"), A("--show-status-code"), A("--show-name"),
                        A("--show-lineage-ranks")>>
                      \o ThreadsArgs(threads) \o DataDirArgs(data_dir),
                      T(idlist), ThreadsLogs(threads), TRUE)

CallLineage ==
    /\ CanCall
    /\ \E ids \in IdsPool, formatstr \in FormatPool, threads \in ThreadsPool,
          data_dir \in DataDirPool :
          /\ call' = [fn |-> "lineage", ids |-> ids, formatstr |-> formatstr,
                      threads |-> threads, data_dir |-> data_dir, nodes |-> nodes]
          /\ Begin(lineage_enter(ids, threads, data_dir))
    /\ UNCHANGED <<treeVars, nodes>>

\* a with block that leaves the temporary file as it is
CloseTmpLeak == tmpfile' = tmpfile

\* leaving the with block closes the temporary file, which removes it
CloseTmp == tmpfile' = [tmpfile EXCEPT !.state = "closed"]

\* a lineage that goes on to reformat whatever taxonkit lineage exited with
LineageCommunicatedNoCheck ==
    /\ pc = "communicate" /\ call.fn = "lineage"
    /\ \E rc \in ExitCodes, out \in OutPool, err \in ErrPool :
          /\ Exited(rc, out, err)
          /\ pc' = "sync" /\ UNCHANGED <<result, exc, tmpfile>>
    /\ UNCHANGED <<treeVars, nodes, call, warnings, logs>>

\* the first communicate() returns
LineageCommunicated ==
    /\ pc = "communicate" /\ call.fn = "lineage"
    /\ \E rc \in ExitCodes, out \in OutPool, err \in ErrPool :
          /\ Exited(rc, out, err)
          /\ IF rc # 0 THEN Raise("TaxonKitCLIError", err) /\ CloseTmp
             ELSE pc' = "sync" /\ UNCHANGED <<result, exc, tmpfile>>
    /\ UNCHANGED <<treeVars, nodes, call, warnings, logs>>

\* lineagefile.flush(); os.fsync(lineagefile.fileno())
LineageSync ==
    /\ pc = "sync"
    /\ tmpfile' = [tmpfile EXCEPT !.flushed = TRUE, !.synced = TRUE]
    /\ pc' = "reformat"
    /\ UNCHANGED <<treeVars, nodes, call, procs, result, exc, warnings, logs>>

\* the arguments of taxonkit reformat2 are put together and it is started
LineageReformat ==
    /\ pc = "reformat"
    /\ logs' = logs \o ThreadsLogs(call.threads)
    /\ IF DataDirRaises(call.data_dir)
       THEN /\ Raise("NCBITaxonomyDumpNotFoundError", call.data_dir.path)
            /\ CloseTmp
            /\ procs' = procs
       ELSE LET extraargs ==
                    (IF Truthy(call.formatstr)
                     THEN <<A("--format"), call.formatstr>> ELSE <<>>)
                    \o ThreadsArgs(call.threads) \o DataDirArgs(call.data_dir)
                arglist ==
                    <<A("taxonkit"), A("reformat2")>> \o extraargs
                    \o <<A("--taxid-field"), A("1"), A("--show-lineage-taxids"),
                         A("lineagefile.name")>>
            IN  /\ Popen(arglist, PyNone, "communicate2")
                /\ IF HasNone(arglist) THEN CloseTmp ELSE tmpfile' = tmpfile
    /\ UNCHANGED <<treeVars, nodes, call, warnings>>

\* the second communicate() returns
LineageCommunicated2 ==
    /\ pc = "communicate2"
    /\ \E rc \in ExitCodes, out \in OutPool, err \in ErrPool :
          /\ Exited(rc, out, err)
          /\ IF rc # 0 THEN Raise("TaxonKitCLIError", err)
             ELSE IF ~read_csv(out).ok THEN Raise("EmptyDataError", "")
             ELSE Return(read_csv(out).val)
    /\ CloseTmp
    /\ UNCHANGED <<treeVars, nodes, call, warnings, logs>>

-----------------------------------------------------------------------------
(* name *)

\* a name that tests its input as the other adapters do, without the newline
name_enter_plain_test(ids, data_dir) ==
    LET idlist == Join(<<"\n">>, StrEach(ids)) \o <<"\n">>
    IN  IF idlist = <<>> THEN Warn("No input for pytaxonkit.name")
        ELSE IF DataDirRaises(data_dir)
        THEN RaiseOut("NCBITaxonomyDumpNotFoundError", data_dir.path, <<>>)
        ELSE PopenOut(<<A("taxonkit"), A("lineage"), A("--show-name"), A("--no-lineage")>>
                      \o DataDirArgs(data_dir),
                      T(idlist), <<>>, FALSE)

name_enter(ids, data_dir) ==
    LET idlist == Join(<<"\n">>, StrEach(ids)) \o <<"\n">>
    IN  IF idlist = <<"\n">> THEN Warn("No input for pytaxonkit.name")
        ELSE IF DataDirRaises(data_dir)
        THEN RaiseOut("NCBITaxonomyDumpNotFoundError", data_dir.path, <<>>)
        ELSE PopenOut(<<A("taxonkit"), A("lineage"), A("--show-name"), A("--no-lineage")>>
                      \o DataDirArgs(data_dir),
                      T(idlist), <<>>, FALSE)

CallName ==
    /\ CanCall
    /\ \E ids \in IdsPool, data_dir \in DataDirPool :
          /\ call' = [fn |-> "name", ids |-> ids, data_dir |-> data_dir,
                      nodes |-> nodes]
          /\ Begin(name_enter(ids, data_dir))
    /\ UNCHANGED <<treeVars, nodes>>

\* communicate() returns; the exit status is not looked at
NameCommunicated ==
    /\ pc = "communicate" /\ call.fn = "name"
    /\ \E rc \in ExitCodes, out \in OutPool, err \in ErrPool :
          /\ Exited(rc, out, err)
          /\ IF ~read_csv(out).ok THEN Raise("EmptyDataError", "")
             ELSE Return(read_csv(out).val)
    /\ UNCHANGED <<treeVars, nodes, call, tmpfile, warnings, logs>>

-----------------------------------------------------------------------------
(* name2taxid *)

NamesPool == {[i \in 1..n |-> <<"H", "o", "m", "o">>] : n \in 0..MaxIds}

name2taxid_enter(names, sciname, threads, data_dir) ==
    LET namelist == Join(<<"\n">>, names)
    IN  IF namelist = <<>> THEN Warn("No input for pytaxonkit.name2taxid")
        ELSE IF DataDirRaises(data_dir)
        THEN RaiseOut("NCBITaxonomyDumpNotFoundError", data_dir.path, ThreadsLogs(threads))
        ELSE PopenOut(<<A("taxonkit"), A("name2taxid"), A("--show-rank")>>
                      \o (IF sciname THEN <<A("--sci-name")>> ELSE <<>>)
                      \o ThreadsArgs(threads) \o DataDirArgs(data_dir),
                      T(namelist), ThreadsLogs(threads), FALSE)

CallName2Taxid ==
    /\ CanCall
    /\ \E names \in NamesPool, sciname \in BOOLEAN, threads \in ThreadsPool,
          data_dir \in DataDirPool :
          /\ call' = [fn |-> "name2taxid", ids |-> names, sciname |-> sciname,
                      threads |-> threads, data_dir |-> data_dir, nodes |-> nodes]
          /\ Begin(name2taxid_enter(names, sciname, threads, data_dir))
    /\ UNCHANGED <<treeVars, nodes>>

Name2TaxidCommunicated ==
    /\ pc = "communicate" /\ call.fn = "name2taxid"
    /\ \E rc \in ExitCodes, out \in OutPool, err \in ErrPool :
          /\ Exited(rc, out, err)
          /\ IF rc # 0 THEN Raise("TaxonKitCLIError", err)
             ELSE IF ~read_csv(out).ok THEN Raise("EmptyDataError", "")
             ELSE Return(read_csv(out).val)
    /\ UNCHANGED <<treeVars, nodes, call, tmpfile, warnings, logs>>

-----------------------------------------------------------------------------
(* filter, list_ranks, list_ranks_db *)

FilterDefaults ==
    [equal_to |-> PyNone, higher_than |-> PyNone, lower_than |-> PyNone,
     discard_norank |-> FALSE, save_predictable |-> FALSE, discard_root |-> FALSE,
     blacklist |-> PyNone, root_taxid |-> PyNone, rank_file |-> PyNone]

FilterOptPool ==
    { FilterDefaults,
      [FilterDefaults EXCEPT !.equal_to = A("species")],
      [FilterDefaults EXCEPT !.equal_to = [list |-> <<"genus", "species">>]],
      [FilterDefaults EXCEPT !.higher_than = A("genus")],
      [FilterDefaults EXCEPT !.lower_than = A("genus"), !.discard_norank = TRUE,
                             !.save_predictable = TRUE],
      [FilterDefaults EXCEPT !.higher_than = A("genus"), !.lower_than = A("genus"),
                             !.discard_norank = TRUE],
      [FilterDefaults EXCEPT !.higher_than = A(""), !.lower_than = A("species"),
                             !.equal_to = A("genus")],
      [FilterDefaults EXCEPT !.discard_root = TRUE,
                             !.blacklist = [list |-> <<"family">>],
                             !.root_taxid = [int |-> 1],
                             !.rank_file = A("ranks.txt")] }

\* ",".join(a list of rank names), kept as the list and its separator
Joined(v) == [join |-> ",", items |-> v.list]

\* a filter that does not compare higher_than with lower_than
filter_enter_no_conflict_test(ids, threads, o) ==
    LET idlist == Join(<<"\n">>, StrEach(ids))
    IN  IF idlist = <<>> THEN Warn("No input for pytaxonkit.filter")
        ELSE PopenOut(<<A("taxonkit"), A("filter")>> \o ThreadsArgs(threads),
                      T(idlist), ThreadsLogs(threads), FALSE)

filter_enter(ids, threads, o) ==
    IF o.higher_than # PyNone /\ o.lower_than # PyNone
    THEN RaiseOut("ValueError",
                  "cannot specify \"higher_than\" and \"lower_than\" simultaneously", <<>>)
    ELSE LET idlist == Join(<<"\n">>, StrEach(ids))
         IN  IF idlist = <<>> THEN Warn("No input for pytaxonkit.filter")
             ELSE PopenOut(
                    <<A("taxonkit"), A("filter")>>
                    \o ThreadsArgs(threads)
                    \o (IF Truthy(o.equal_to)
                        THEN <<A("--equal-to"),
                               IF "list" \in DOMAIN o.equal_to
                               THEN Joined(o.equal_to) ELSE o.equal_to>>
                        ELSE <<>>)
                    \o (IF Truthy(o.higher_than)
                        THEN <<A("--higher-than"), o.higher_than>> ELSE <<>>)
                    \o (IF Truthy(o.lower_than)
                        THEN <<A("--lower-than"), o.lower_than>> ELSE <<>>)
                    \o (IF o.discard_norank THEN <<A("--discard-noranks")>> ELSE <<>>)
                    \o (IF o.save_predictable
                        THEN <<A("--save-predictable-norank")>> ELSE <<>>)
                    \o (IF o.discard_root THEN <<A("--discard-root")>> ELSE <<>>)
                    \o (IF Truthy(o.blacklist)
                        THEN <<A("--black-list"), Joined(o.blacklist)>> ELSE <<>>)
                    \o (IF Truthy(o.root_taxid)
                        THEN <<A("--root-taxid"), T(py_str(o.root_taxid.int))>>
                        ELSE <<>>)
                    \o (IF Truthy(o.rank_file)
                        THEN <<A("--rank-file"), o.rank_file>> ELSE <<>>),
                    T(idlist), ThreadsLogs(threads), FALSE)

CallFilter ==
    /\ CanCall
    /\ \E ids \in IdsPool, threads \in ThreadsPool, o \in FilterOptPool :
          /\ call' = [fn |-> "filter", ids |-> ids, threads |-> threads,
                      data_dir |-> PyNone, opts |-> o, nodes |-> nodes]
          /\ Begin(filter_enter(ids, threads, o))
    /\ UNCHANGED <<treeVars, nodes>>

\* communicate() returns; the exit status is not looked at
FilterCommunicated ==
    /\ pc = "communicate" /\ call.fn = "filter"
    /\ \E rc \in ExitCodes, out \in OutPool, err \in ErrPool :
          /\ Exited(rc, out, err)
          /\ IF ~read_csv(out).ok THEN Raise("EmptyDataError", "")
             ELSE Return([kind |-> "list", column |-> "TaxID", text |-> out])
    /\ UNCHANGED <<treeVars, nodes, call, tmpfile, warnings, logs>>

RankFilePool == {PyNone, A("ranks.txt")}

list_ranks_enter(rank_file) ==
    PopenOut(<<A("taxonkit"), A("filter"), A("--list-order")>>
             \o (IF Truthy(rank_file) THEN <<A("--rank-file"), rank_file>> ELSE <<>>),
             T(<<>>), <<>>, FALSE)

CallListRanks ==
    /\ CanCall
    /\ \E rank_file \in RankFilePool :
          /\ call' = [fn |-> "list_ranks", ids |-> <<>>, data_dir |-> PyNone,
                      rank_file |-> rank_file, nodes |-> nodes]
          /\ Begin(list_ranks_enter(rank_file))
    /\ UNCHANGED <<treeVars, nodes>>

RECURSIVE SplitWsAcc(_, _, _, _)
SplitWsAcc(s, i, cur, acc) ==
    IF i > Len(s) THEN IF cur = <<>> THEN acc ELSE Append(acc, cur)
    ELSE IF s[i] \in Whitespace
    THEN SplitWsAcc(s, i + 1, <<>>, IF cur = <<>> THEN acc ELSE Append(acc, cur))
    ELSE SplitWsAcc(s, i + 1, Append(cur, s[i]), acc)

\* str.split() without a separator: the runs of non-whitespace
str_split_ws(s) == SplitWsAcc(s, 1, <<>>, <<>>)

\* line.split(",") if "," in line else line
RankValue(line) ==
    IF \E i \in 1..Len(line) : line[i] = ","
    THEN [list |-> str_split(line, ",")] ELSE [str |-> line]

\* communicate() returns; the exit status is not looked at
ListRanksCommunicated ==
    /\ pc = "communicate" /\ call.fn = "list_ranks"
    /\ \E rc \in ExitCodes, out \in OutPool, err \in ErrPool :
          /\ Exited(rc, out, err)
          /\ LET lines == str_split_ws(str_strip(out))
             IN  Return([kind |-> "list",
                         items |-> [i \in 1..Len(lines) |-> RankValue(lines[i])]])
    /\ UNCHANGED <<treeVars, nodes, call, tmpfile, warnings, logs>>

list_ranks_db_enter(rank_file) ==
    PopenOut(<<A("taxonkit"), A("filter"), A("--list-ranks")>>
             \o (IF Truthy(rank_file) THEN <<A("--rank-file"), rank_file>> ELSE <<>>),
             T(<<>>), <<>>, FALSE)

CallListRanksDb ==
    /\ CanCall
    /\ \E rank_file \in RankFilePool :
          /\ call' = [fn |-> "list_ranks_db", ids |-> <<>>, data_dir |-> PyNone,
                      rank_file |-> rank_file, nodes |-> nodes]
          /\ Begin(list_ranks_db_enter(rank_file))
    /\ UNCHANGED <<treeVars, nodes>>

\* communicate() returns; the exit status is not looked at
ListRanksDbCommunicated ==
    /\ pc = "communicate" /\ call.fn = "list_ranks_db"
    /\ \E rc \in ExitCodes, out \in OutPool, err \in ErrPool :
          /\ Exited(rc, out, err)
          /\ IF ~read_csv(out).ok THEN Raise("EmptyDataError", "")
             ELSE Return([kind |-> "list", column |-> "Rank", text |-> out])
    /\ UNCHANGED <<treeVars, nodes, call, tmpfile, warnings, logs>>

-----------------------------------------------------------------------------
(* lca *)

LcaOptPool ==
    { [skip_deleted |-> FALSE, skip_unfound |-> FALSE, keep_invalid |-> FALSE],
      [skip_deleted |-> TRUE, skip_unfound |-> TRUE, keep_invalid |-> FALSE],
      [skip_deleted |-> TRUE, skip_unfound |-> TRUE, keep_invalid |-> TRUE] }

lca_enter(ids, multi, o, threads, data_dir) ==
    LET idstring ==
            IF multi
            THEN Join(<<"\n">>, [i \in 1..Len(ids) |-> Join(<<" ">>, StrEach(ids[i]))])
            ELSE Join(<<" ">>, StrEach(ids))
    IN  IF idstring = <<>> THEN Warn("No input for pytaxonkit.lca")
        ELSE IF DataDirRaises(data_dir)
        THEN RaiseOut("NCBITaxonomyDumpNotFoundError", data_dir.path, ThreadsLogs(threads))
        ELSE PopenOut(<<A("taxonkit"), A("lca")>>
                      \o (IF o.skip_deleted THEN <<A("--skip-deleted")>> ELSE <<>>)
                      \o (IF o.skip_unfound THEN <<A("--skip-unfound")>> ELSE <<>>)
                      \o (IF o.keep_invalid THEN <<A("--keep-invalid")>> ELSE <<>>)
                      \o ThreadsArgs(threads) \o DataDirArgs(data_dir),
                      T(idstring), ThreadsLogs(threads), FALSE)

CallLca ==
    /\ CanCall
    /\ \E multi \in BOOLEAN, o \in LcaOptPool, threads \in ThreadsPool,
          data_dir \in DataDirPool :
          \E ids \in IF multi THEN MultiIdsPool ELSE IdsPool :
              /\ call' = [fn |-> "lca", ids |-> ids, multi |-> multi, opts |-> o,
                          threads |-> threads, data_dir |-> data_dir, nodes |-> nodes]
              /\ Begin(lca_enter(ids, multi, o, threads, data_dir))
    /\ UNCHANGED <<treeVars, nodes>>

\* an lca that takes the first field of a line for the taxid
LcaLineFirstField(line) ==
    LET parts == str_split(line, "\t")
    IN  IF Len(parts) # 2 THEN [ok |-> FALSE, val |-> 0] ELSE py_int(parts[1])

\* queries, lcataxid = line.split("\t"); int(lcataxid)
LcaLine(line) ==
    LET parts == str_split(line, "\t")
    IN  IF Len(parts) # 2 THEN [ok |-> FALSE, val |-> 0] ELSE py_int(parts[2])

\* the statements of lca after the exit status is found to be zero
lca_results(out, multi, ids) ==
    IF str_strip(out) = <<>>
    THEN [do |-> "return",
          val |-> IF multi
                  THEN [kind |-> "list", items |-> [i \in 1..Len(ids) |-> PyNone]]
                  ELSE PyNone]
    ELSE LET lines   == str_split(str_strip(out), "\n")
             results == [i \in 1..Len(lines) |-> [int |-> LcaLine(lines[i]).val]]
         IN  IF \E i \in 1..Len(lines) : ~LcaLine(lines[i]).ok
             THEN [do |-> "raise", type |-> "ValueError"]
             ELSE IF multi THEN [do |-> "return",
                                 val |-> [kind |-> "list", items |-> results]]
             ELSE IF Len(results) # 1 THEN [do |-> "raise", type |-> "AssertionError"]
             ELSE [do |-> "return", val |-> results[1]]

LcaCommunicated ==
    /\ pc = "communicate" /\ call.fn = "lca"
    /\ \E rc \in ExitCodes, out \in OutPool, err \in ErrPool :
          /\ Exited(rc, out, err)
          /\ IF rc # 0 THEN Raise("TaxonKitCLIError", err)
             ELSE LET r == lca_results(out, call.multi, call.ids)
                  IN  IF r.do = "raise" THEN Raise(r.type, "") ELSE Return(r.val)
    /\ UNCHANGED <<treeVars, nodes, call, tmpfile, warnings, logs>>

-----------------------------------------------------------------------------
(* Calls, one after the other *)

InitCall ==
    /\ data = <<>>
    /\ keyParts = <<>>
    /\ BuiltFromDump
    /\ GensIdle
    /\ NoCallYet

NextCall ==
    \/ EnvNodes
    \/ CallValidateThreads
    \/ CallList
    \/ ListCommunicated
    \/ CallLineage
    \/ LineageCommunicated
    \/ LineageSync
    \/ LineageReformat
    \/ LineageCommunicated2
    \/ CallName
    \/ NameCommunicated
    \/ CallName2Taxid
    \/ Name2TaxidCommunicated
    \/ CallFilter
    \/ FilterCommunicated
    \/ CallListRanks
    \/ ListRanksCommunicated
    \/ CallListRanksDb
    \/ ListRanksDbCommunicated
    \/ CallLca
    \/ LcaCommunicated

SpecCall == InitCall /\ [][NextCall]_vars

-----------------------------------------------------------------------------
(* What the claims about the adapters speak of *)

TakesIds == {"list", "lineage", "name", "name2taxid", "filter", "lca"}

NoInputMessage(fn) ==
    CASE fn = "list"       -> "No input for pytaxonkit.list"
      [] fn = "lineage"    -> "No input for pytaxonkit.lineage"
      [] fn = "name"       -> "No input for pytaxonkit.name"
      [] fn = "name2taxid" -> "No input for pytaxonkit.name2taxid"
      [] fn = "filter"     -> "No input for pytaxonkit.filter"
      [] fn = "lca"        -> "No input for pytaxonkit.lca"

WarnedAndReturnedNone ==
    /\ pc = "returned"
    /\ result = PyNone
    /\ warnings = <<NoInputMessage(call.fn)>>
    /\ procs = <<>>

RangeConflict ==
    /\ call.fn = "filter"
    /\ call.opts.higher_than # PyNone
    /\ call.opts.lower_than # PyNone

\* C7 as stated: called with an empty list, whatever the other arguments, each
\* of the six adapters warns "No input for pytaxonkit.<function>", returns None
\* and starts no process.
C7_EmptyInputAlwaysWarns ==
    (call.fn \in TakesIds /\ call.ids = <<>>) => WarnedAndReturnedNone

\* C7, amended: called with an empty list, each of the six adapters warns "No
\* input for pytaxonkit.<function>", returns None and starts no process,
\* except that filter given both higher_than and lower_than raises ValueError,
\* and starts no process either.
C7_EmptyInputWarns ==
    (call.fn \in TakesIds /\ call.ids = <<>>) =>
        IF RangeConflict
        THEN pc = "raised" /\ exc.type = "ValueError" /\ procs = <<>> /\ warnings = <<>>
        ELSE WarnedAndReturnedNone

C7_Witness ==
    /\ call.fn = "lca"
    /\ call.multi
    /\ call.ids = <<>>
    /\ call.threads = [str |-> <<"x">>]
    /\ call.data_dir = [path |-> "/d"]
    /\ call.nodes = "absent"
    /\ pc = "returned"

\* C8: a process that has exited with a nonzero status has made the call
\* raise TaxonKitCLIError with the process's stderr text, and return nothing.
C8_NonzeroExitRaises ==
    \A i \in 1..Len(procs) :
        (procs[i].state = "exited" /\ procs[i].rc # 0) =>
            /\ pc = "raised"
            /\ exc = [type |-> "TaxonKitCLIError", msg |-> procs[i].err]
            /\ result = PyNone

\* the call put --data-dir and the real path of its data_dir on the command line
PassedRealPath(args) ==
    \E i \in 1..(Len(args) - 1) :
        args[i] = A("--data-dir") /\ args[i + 1] = A(RealPath(call.data_dir.path))

BadDirRaised ==
    /\ pc = "raised"
    /\ exc = [type |-> "NCBITaxonomyDumpNotFoundError", msg |-> call.data_dir.path]
    /\ procs = <<>>

\* C9 as stated: a call given a data_dir without a nodes.dmp of nonzero size
\* raises NCBITaxonomyDumpNotFoundError and starts no process; given one with
\* it, the process is handed the real path of the directory.
C9_BadDataDirAlwaysRaises ==
    (call.fn # "none" /\ call.data_dir # PyNone) =>
        /\ call.nodes # "nonempty" => BadDirRaised
        /\ (call.nodes = "nonempty" /\ procs # <<>>) => PassedRealPath(procs[1].args)

\* the text the call would write for its ids is not empty
HasInput ==
    /\ call.ids # <<>>
    /\ (call.fn = "lca" /\ call.multi) => call.ids # <<<<>>>>

\* C9, amended: a call given some input and a data_dir, other than the empty
\* string, without a nodes.dmp of nonzero size raises
\* NCBITaxonomyDumpNotFoundError and starts no process; given one with it, the
\* process is handed the real path of the directory.  (With no input the call
\* warns and returns before the directory is looked at; an empty string counts
\* as no data_dir.)
C9_BadDataDirRaises ==
    (call.fn # "none" /\ call.data_dir # PyNone /\ call.data_dir.path # "" /\ HasInput) =>
        /\ call.nodes # "nonempty" => BadDirRaised
        /\ (call.nodes = "nonempty" /\ procs # <<>>) => PassedRealPath(procs[1].args)

C9_Witness ==
    /\ call.fn = "lineage"
    /\ call.data_dir = [path |-> "/d"]
    /\ call.nodes = "empty"
    /\ HasInput
    /\ pc = "raised"

\* C10: a call has started at most one process, a lineage call at most two;
\* no two processes of a call run at once; and once lineage's second process
\* (reformat2) is started, the first (lineage) has exited with status zero and
\* the temporary file has been flushed and synced.
C10_OneProcessAtATime ==
    /\ Len(procs) <= IF call.fn = "lineage" THEN 2 ELSE 1
    /\ Cardinality({i \in 1..Len(procs) : procs[i].state = "running"}) <= 1
    /\ Len(procs) = 2 =>
          /\ procs[1].args[2] = A("lineage")
          /\ procs[2].args[2] = A("reformat2")
          /\ procs[1].state = "exited"
          /\ procs[1].rc = 0
          /\ tmpfile.flushed
          /\ tmpfile.synced

C10_Witness ==
    /\ Len(procs) = 2
    /\ procs[2].state = "running"
    /\ tmpfile.state = "open"

\* C11: a lineage call that is over, returned or raised, has left no temporary
\* file open: the file, if the call got as far as making it, is closed (and so
\* removed), whichever statement ended the call; and no file is ever open
\* outside a lineage call that is under way.
C11_TmpFileReleased ==
    /\ (call.fn = "lineage" /\ pc \in {"returned", "raised"}) =>
          /\ tmpfile.state # "open"
          /\ procs # <<>> => tmpfile.state = "closed"
    /\ tmpfile.state = "open" =>
          (call.fn = "lineage" /\ pc \in {"communicate", "sync", "reformat", "communicate2"})

\* the second validation of data_dir raised, after the file was made
C11_Witness ==
    /\ call.fn = "lineage"
    /\ pc = "raised"
    /\ exc.type = "NCBITaxonomyDumpNotFoundError"
    /\ Len(procs) = 1
    /\ tmpfile.state = "closed"

\* C12: the mapping of a result stays the mapping json.loads built, whatever
\* len(), str(), iterations and traversals have run and whatever a consumer
\* has done to the subtrees iteration handed it.
C12_TreeImmutable == built.ok => data = built.val

\* what a generator of __iter__, made anew and run to its end, yields
RECURSIVE IterRun(_, _, _)
IterRun(tree, idx, acc) ==
    LET r == IterResume(tree, idx)
    IN  IF r.what = "yield" THEN IterRun(tree, idx + 1, Append(acc, r.item))
        ELSE [out |-> acc, end |-> IF r.what = "raise" THEN "error" ELSE "done"]

\* C13: whatever generators were started, partly consumed and dropped before,
\* and whatever the other generator is doing meanwhile, what a generator of
\* iterate() or of traverse() has yielded is the beginning, from the first
\* top-level key on, of the one sequence the mapping gives; a generator that
\* has ended has yielded the whole of it and ended the way that sequence ends;
\* and no generator yields more items than the mapping has keys.
C13_Restartable ==
    /\ it.status # "none" =>
          LET full == IterRun(data, 0, <<>>)
          IN  /\ Len(itOut) = it.idx
              /\ IsPrefixSeq(itOut, full.out)
              /\ Len(itOut) <= Len(data)
              /\ it.status \in {"done", "error"} =>
                    (itOut = full.out /\ it.status = full.end)
    /\ tr.status # "none" =>
          LET full == TraverseRun(<<[tree |-> data, idx |-> 0]>>, <<>>)
          IN  /\ IsPrefixSeq(trOut, full.out)
              /\ Len(trOut) <= NodeCount(data)
              /\ tr.status \in {"done", "error"} =>
                    (trOut = full.out /\ tr.status = full.end)

\* both generators were dropped part-way and made again, and the new ones ran
\* to the end
C13_Witness ==
    /\ abandoned.it
    /\ abandoned.tr
    /\ it.status = "done"
    /\ tr.status = "done"
    /\ Len(itOut) >= 2
    /\ Len(trOut) >= 3

\* the mapping a nest of (key, value) pairs stands for: a key written twice
\* stays where it was first written and has the value written last
RECURSIVE Collapse(_)
RECURSIVE CollapseFrom(_, _, _)
CollapseFrom(m, i, acc) ==
    IF i > Len(m) THEN acc
    ELSE CollapseFrom(m, i + 1, DictSet(acc, m[i][1], Collapse(m[i][2])))

Collapse(m) == CollapseFrom(m, 1, <<>>)

\* every key of the mapping, at every depth, gives a taxon
RECURSIVE KeysDecompose(_)
KeysDecompose(m) ==
    \A i \in 1..Len(m) :
        IterTaxon(m[i][1]).ok /\ TraverseTaxon(m[i][1]).ok /\ KeysDecompose(m[i][2])

\* construction either fails, and then there is no result to call anything
\* on, or holds the whole of what the payload says
BuiltWholeOrNot ==
    IF written.form \in {"compact", "indented"}
    THEN built.ok /\ data = Collapse(written.nest)
    ELSE /\ ~built.ok
         /\ it.status = "none" /\ tr.status = "none" /\ last = NoLast

\* C14 as stated: construction is all or nothing, and a result that was
\* constructed has keys that all decompose, so that neither iterate() nor
\* traverse() ever fails on it.
C14_BuiltNeverFailsLater ==
    /\ BuiltWholeOrNot
    /\ built.ok =>
          /\ KeysDecompose(data)
          /\ it.status # "error"
          /\ tr.status # "error"

\* C14, amended: construction is all or nothing; it does not look at the
\* keys, so a constructed result may hold a key that gives no taxon, and then
\* iterate() or traverse() fails with ValueError at that key, having yielded
\* the taxa before it; len() gives the number of top-level keys whatever the
\* keys are, and on a result whose keys all decompose nothing fails.
C14_BuiltAllOrNothing ==
    /\ BuiltWholeOrNot
    /\ built.ok =>
          /\ last.op = "len" => last.n = Len(data)
          /\ it.status = "error" =>
                /\ itErr.type = "ValueError"
                /\ ~IterTaxon(itErr.key).ok
                /\ itErr.key = data[Len(itOut) + 1][1]
          /\ tr.status = "error" =>
                /\ trErr.type = "ValueError"
                /\ ~TraverseTaxon(trErr.key).ok
          /\ KeysDecompose(data) => (it.status # "error" /\ tr.status # "error")

\* a result was built whose second key gives no taxon: iterate() yielded the
\* first taxon and failed, traverse() likewise, and len() is 2
C14_Witness ==
    /\ built.ok
    /\ it.status = "error"
    /\ Len(itOut) = 1
    /\ tr.status = "error"
    /\ Len(trOut) = 1
    /\ last.op = "len"
    /\ last.n = 2

\* C15: the text str() gave parses, and to the very mapping the payload
\* parses to: the keys the payload wrote, in the order it wrote them, at every
\* depth; the text is the one text that mapping has, however often str() was
\* called and whatever was called before it; and the result still holds the
\* mapping it was built with.
C15_StrRoundTrip ==
    (built.ok /\ last.op = "str") =>
        /\ json_loads(last.text).ok
        /\ json_loads(last.text).val = json_loads(payload).val
        /\ json_loads(last.text).val = Collapse(written.nest)
        /\ last.text = DumpsIndent(Collapse(written.nest), 0)
        /\ data = built.val

\* str() of a result built from a compact payload, a parent with one child,
\* the parent's name holding quotes
C15_Witness ==
    /\ built.ok
    /\ last.op = "str"
    /\ written.form = "compact"
    /\ Len(data) = 1
    /\ data[1][1] = KeySpecies
    /\ Len(data[1][2]) = 1
    /\ it.status = "done"

\* C16: len() is the number of different keys the payload wrote at its top
\* level, the keys of nested objects not counted, and so zero for an empty
\* tree; and on a tree whose top-level taxa all have no children it is the
\* number of those taxa, every subtree iterate() yields is empty, and a
\* finished iteration over well-formed keys has yielded that many pairs.
C16_LenTopLevel ==
    (built.ok /\ last.op = "len") =>
        /\ last.n = Cardinality({written.nest[i][1] : i \in 1..Len(written.nest)})
        /\ last.n = Cardinality(TopKeys(data))
        /\ written.nest = <<>> => last.n = 0
        /\ (\A i \in 1..Len(data) : data[i][2] = <<>>) =>
              /\ last.n = NodeCount(data)
              /\ \A j \in 1..Len(itOut) :
                    itOut[j].kind = "dict" /\ itOut[j].data = <<>>
              /\ (TopKeysWithin(data, GoodKeys) /\ it.status = "done") =>
                    Len(itOut) = last.n

\* two top-level taxa without children: len() is 2 and both subtrees are empty
C16_Witness ==
    /\ built.ok
    /\ last = [op |-> "len", n |-> 2, text |-> <<>>]
    /\ \A i \in 1..Len(data) : data[i][2] = <<>>
    /\ it.status = "done"
    /\ Len(itOut) = 2

\* C17: a filter call given both higher_than and lower_than (neither is None,
\* an empty string counts as given) has raised ValueError('cannot specify
\* "higher_than" and "lower_than" simultaneously'), whatever its ids, empty or
\* not, and its other options, and has started no process, warned of nothing
\* and returned nothing.
C17_FilterRangeConflict ==
    RangeConflict =>
        /\ pc = "raised"
        /\ exc = [type |-> "ValueError",
                  msg |-> "cannot specify \"higher_than\" and \"lower_than\" simultaneously"]
        /\ procs = <<>>
        /\ warnings = <<>>
        /\ result = PyNone

C17_Witness ==
    /\ RangeConflict
    /\ call.ids # <<>>
    /\ call.opts.higher_than = A("")
    /\ call.threads = [int |-> 2]
    /\ pc = "raised"

\* a line of taxonkit lca: the query, one tab, the digits of a taxid
IsLcaLine(line) ==
    \E t \in 1..(Len(line) - 1) :
        /\ line[t] = "\t"
        /\ \A i \in 1..Len(line) : (line[i] = "\t") => i = t
        /\ \A i \in (t + 1)..Len(line) : line[i] \in Digits

\* the number written after the tab
SecondField(line) ==
    LET t == CHOOSE i \in 1..Len(line) : line[i] = "\t"
    IN  DecimalValue(SubSeq(line, t + 1, Len(line)), 0)

ListOf(items) == [kind |-> "list", items |-> items]

\* C18: an lca call whose process has exited with status zero and written
\* nothing but whitespace has returned None, or in multi mode a list of as many
\* None as ids were given; when the process has written lines of lca output
\* (query, tab, taxid), a multi call has returned the list of the numbers after
\* the tab, in line order, and a single call, the output being one line, the
\* number after the tab of that line.
C18_LcaResults ==
    (call.fn = "lca" /\ procs # <<>> /\ procs[1].state = "exited" /\ procs[1].rc = 0) =>
        LET out   == procs[1].out
            lines == str_split(str_strip(out), "\n")
        IN  IF \A i \in 1..Len(out) : out[i] \in Whitespace
            THEN /\ pc = "returned"
                 /\ result = IF call.multi
                              THEN ListOf([i \in 1..Len(call.ids) |-> PyNone])
                              ELSE PyNone
            ELSE (\A i \in 1..Len(lines) : IsLcaLine(lines[i])) =>
                    IF call.multi
                    THEN /\ pc = "returned"
                         /\ result = ListOf([i \in 1..Len(lines) |->
                                                 [int |-> SecondField(lines[i])]])
                    ELSE Len(lines) = 1 =>
                            /\ pc = "returned"
                            /\ result = [int |-> SecondField(lines[1])]

\* a multi call of two queries got two lines back
C18_Witness ==
    /\ call.fn = "lca"
    /\ call.multi
    /\ Len(call.ids) = 2
    /\ pc = "returned"
    /\ result = ListOf(<<[int |-> 7], [int |-> 0]>>)

ValidateThreadsCalled == call.fn = "validate_threads"

\* what validate_threads does with None, with a value int() takes and with a
\* value int() rejects by ValueError
ValidateThreadsOutcome ==
    LET value == call.value
    IN  /\ value = PyNone => (pc = "returned" /\ result = PyNone /\ logs = <<>>)
        /\ (value # PyNone /\ int_of(value).ok) =>
              /\ pc = "returned"
              /\ result = T(py_str(int_of(value).val))
              /\ logs = <<>>
        /\ value = [int |-> 2] => result = T(<<"2">>)
        /\ value = [str |-> <<"1", "6">>] => result = T(<<"1", "6">>)
        /\ value = [str |-> <<" ", "6">>] => result = T(<<"6">>)
        /\ value = [str |-> <<"-", "1">>] => result = T(<<"-", "1">>)
        /\ value = [str |-> <<"1", "x">>] => result = PyNone
        /\ (value # PyNone /\ int_of(value).exc = "ValueError") =>
              /\ pc = "returned"
              /\ result = PyNone
              /\ logs = <<InvalidThreads(value)>>

\* C19 as stated: validate_threads never raises; it returns None for None,
\* the decimal text of int(value) for a value int() takes, logging nothing, and
\* for every other value logs the warning and returns None.
C19_ValidateThreadsNeverRaises ==
    ValidateThreadsCalled =>
        /\ pc = "returned"
        /\ ValidateThreadsOutcome
        /\ (call.value # PyNone /\ ~int_of(call.value).ok) =>
              (result = PyNone /\ logs = <<InvalidThreads(call.value)>>)

\* C19, amended: validate_threads returns None for None, the decimal text of
\* int(value) for a value int() takes, logging nothing, and for a value int()
\* rejects by ValueError logs the warning and returns None; a value int()
\* rejects by another exception (a list, an infinite float) makes
\* validate_threads raise that exception, nothing logged.
C19_ValidateThreads ==
    ValidateThreadsCalled =>
        /\ ValidateThreadsOutcome
        /\ (call.value # PyNone /\ int_of(call.value).exc \notin {"none", "ValueError"}) =>
              /\ pc = "raised"
              /\ exc.type = int_of(call.value).exc
              /\ logs = <<>>
        /\ pc = "raised" =>
              ("list" \in DOMAIN call.value \/ "float" \in DOMAIN call.value)

\* text that int() rejects was logged and None came back
C19_Witness ==
    /\ ValidateThreadsCalled
    /\ call.value = [str |-> <<"x", "6">>]
    /\ pc = "returned"
    /\ result = PyNone
    /\ logs # <<>>

NoNumberError == [type |-> "ValueError", key |-> KeyNoNumber]

\* C20: in a tree whose keys are well formed but for keys with a leading part
\* that is no number, iterate() and traverse() yield nothing for such a key and
\* nothing for any key they would come to after it: they end with ValueError
\* at the first such key in their order, having yielded the taxa before it, and
\* end without error only when they meet no such key.
C20_NonNumericTaxidRaises ==
    KeysWithin(data, GoodKeys \cup {KeyNoNumber}) =>
        /\ it.status # "none" =>
              /\ \A j \in 1..Len(itOut) : data[j][1] # KeyNoNumber
              /\ it.status = "error" =>
                    (itErr = NoNumberError /\ data[Len(itOut) + 1][1] = KeyNoNumber)
              /\ it.status = "done" => TopKeysWithin(data, GoodKeys)
        /\ tr.status # "none" =>
              LET pre == Preorder(data, <<>>, 1)
              IN  /\ Len(trOut) <= Len(pre)
                  /\ \A j \in 1..Len(trOut) : EntryAt(data, pre[j])[1] # KeyNoNumber
                  /\ tr.status = "error" =>
                        /\ trErr = NoNumberError
                        /\ EntryAt(data, pre[Len(trOut) + 1])[1] = KeyNoNumber
                  /\ tr.status = "done" => KeysWithin(data, GoodKeys)

\* the third key is the one without a number: iterate() yielded one taxon and
\* failed, traverse() two
C20_Witness ==
    /\ KeysWithin(data, GoodKeys \cup {KeyNoNumber})
    /\ it.status = "error"
    /\ Len(itOut) = 1
    /\ tr.status = "error"
    /\ Len(trOut) = 2

\* the taxa of a mapping with well-formed keys, in depth-first pre-order
TaxaOf(m) ==
    LET pre == Preorder(m, <<>>, 1)
    IN  [i \in 1..Len(pre) |-> TaxonOf(EntryAt(m, pre[i])[1])]

\* each taxon iterate() yielded followed by the taxa of its subtree
RECURSIVE TaxonThenSubtree(_, _)
TaxonThenSubtree(items, j) ==
    IF j > Len(items) THEN <<>>
    ELSE <<items[j].taxon>> \o TaxaOf(items[j].data) \o TaxonThenSubtree(items, j + 1)

\* C21: on a tree whose keys are all well formed, what an exhausted traverse()
\* has yielded is, pair by pair of an exhausted iterate(), the taxon followed
\* by the traversal of its subtree; and every subtree iterate() yields, that of
\* a leaf included, can be traversed: the traversal ends without error and
\* yields the taxa of the subtree, none for a leaf.
C21_TraverseAgreesWithIterate ==
    KeysWithin(data, GoodKeys) =>
        /\ (it.status = "done" /\ tr.status = "done") =>
              trOut = TaxonThenSubtree(itOut, 1)
        /\ subRun.kind # "none" =>
              (subRun.end = "done" /\ subRun.out = TaxaOf(subRun.data))

TakesThreads == {"list", "lineage", "name2taxid", "filter", "lca"}

\* text of digits, a minus sign before them allowed
IsDecimalText(a) ==
    /\ "text" \in DOMAIN a
    /\ a.text # <<>>
    /\ LET body == IF a.text[1] = "-" THEN Tail(a.text) ELSE a.text
       IN  body # <<>> /\ \A i \in 1..Len(body) : body[i] \in Digits

\* C22: whatever threads a call of list, lineage, name2taxid, filter or lca
\* was given, a number, text that is one, or text that validate_threads
\* rejects, no argument list it handed to Popen held None: Popen never refused
\* the list with a TypeError, and in the list of every process started
\* --threads, when there at all, is followed by decimal text.
C22_ArgumentsAreStrings ==
    call.fn \in TakesThreads =>
        /\ ~(pc = "raised" /\ exc.type = "TypeError")
        /\ \A i \in 1..Len(procs) :
              \A k \in 1..Len(procs[i].args) :
                  /\ procs[i].args[k] # PyNone
                  /\ procs[i].args[k] = A("--threads") =>
                        (k < Len(procs[i].args) /\ IsDecimalText(procs[i].args[k + 1]))

\* the text lca writes to the tool for one query
QueryText(q) == Join(<<" ">>, StrEach(q))

\* the part of a line of lca before the tab
FirstField(line) ==
    LET t == CHOOSE i \in 1..Len(line) : line[i] = "\t"
    IN  SubSeq(line, 1, t - 1)

\* C23: a multi call of lca that has returned a list has returned one entry
\* for each query, in the order of the queries; when the tool has printed
\* lines of lca output for queries of the call, for some of them or for all,
\* entry i is the number on the line of query i, or None when there is no
\* such line.
C23_LcaMultiAligned ==
    (call.fn = "lca" /\ call.multi /\ pc = "returned" /\ "kind" \in DOMAIN result) =>
        LET lines == str_split(str_strip(procs[1].out), "\n")
            mine  == IF str_strip(procs[1].out) = <<>> THEN {}
                     ELSE 1..Len(lines)
        IN  /\ Len(result.items) = Len(call.ids)
            /\ (\A k \in mine :
                   /\ IsLcaLine(lines[k])
                   /\ \E i \in 1..Len(call.ids) :
                         FirstField(lines[k]) = QueryText(call.ids[i])) =>
                  \A i \in 1..Len(call.ids) :
                      LET ks == {k \in mine : FirstField(lines[k]) = QueryText(call.ids[i])}
                      IN  result.items[i] =
                              IF ks = {} THEN PyNone
                              ELSE [int |-> SecondField(lines[CHOOSE k \in ks : TRUE])]

====
